---- MODULE Spec2Model ----
(***************************************************************************)
(* quirkysat.model: WeightedModel, SimpleModel and AbsoluteModel, the      *)
(* functor objects that test an input against a sequence of weighted       *)
(* boolean clauses.  One model object is followed from its construction    *)
(* through push_clause(), score() and __call__().                          *)
(***************************************************************************)
EXTENDS Integers, Sequences, FiniteSets, TLC

\* ---------------------------------------------------------------- bounds
\* Longest clause sequence a model holds (constructor list plus pushes).
MaxClauses == 2
\* Largest clause weight; weights are the non-negative numbers 0..MaxWeight.
MaxWeight == 2
\* score()/__call__() are started only while FibonacciClause.prev[1] <= MaxFib.
MaxFib == 1

\* Python's None (model.py:115, the default of required_score).
None == -1

\* Largest required_score a caller supplies: one above every clause count.
MaxReq == MaxClauses + 1

\* Inputs the model is invoked with (model.py:20-24 uses 1, 3, 2).
Inputs == 1..3
Weights == 0..MaxWeight
\* What a caller passes as required_score: nothing (None) or a number.
Supplied == {None} \cup (0..MaxReq)

\* The clause predicates of the module's examples:
\*   "gt1"  lambda x: x > 1        (model.py:17)
\*   "lt3"  lambda x: x < 3        (model.py:18)
\*   "fib"  FibonacciClause()      (model.py:31-36), stateful
Predicates == {"gt1", "lt3", "fib"}

Classes == {"WeightedModel", "SimpleModel", "AbsoluteModel"}

RECURSIVE SeqsUpTo(_, _)
SeqsUpTo(S, n) ==
    IF n = 0 THEN {<<>>}
    ELSE LET shorter == SeqsUpTo(S, n - 1)
         IN shorter \cup {Append(s, e) : s \in {t \in shorter : Len(t) = n - 1}, e \in S}

\* A clause as push_clause stores it: the tuple (clause, weight).
ClauseTuples == [pred : Predicates, weight : Weights]

VARIABLES
    cls,             \* class whose constructor built the object ("" before any)
    clauses,         \* self._clauses
    required_score,  \* self.required_score
    prev,            \* FibonacciClause.prev, a class attribute mutated in place
    supplied,        \* history: the required_score argument of the constructor
    pushed,          \* history: push_clause calls made after the constructor returned
    op,              \* the last operation: "new", "push", "score", "call"
    data,            \* the input of the last score()/__call__()
    invoked,         \* the clause invocations of the last operation, in order
    result,          \* what the last score() returned
    verdict,         \* what the last __call__() returned
    raised           \* the exception the last operation raised, or "none"

vars == <<cls, clauses, required_score, prev, supplied, pushed, op, data,
          invoked, result, verdict, raised>>

\* ------------------------------------------------------------- clauses
\* Python truthiness of a required_score: `not x` holds of None and of 0.
Falsy(x) == x = None \/ x = 0

\* FibonacciClause.__call__: next = prev[1] + prev.pop(0); prev += [next];
\* return data == next.
FibNext(pv) == pv[1] + pv[2]
FibAdvance(pv) == <<pv[2], FibNext(pv)>>

\* clause[0](*args): the truth value returned and the clause state it leaves.
Invoke(p, x, pv) ==
    CASE p = "gt1" -> [res |-> x > 1, prev |-> pv]
      [] p = "lt3" -> [res |-> x < 3, prev |-> pv]
      [] p = "fib" -> [res |-> x = FibNext(pv), prev |-> FibAdvance(pv)]

\* ----------------------------------------------------- WeightedModel
\* Variant of push_clause that inserts at the front: [(clause, weight)] + self._clauses
push_clause_front(cs, p, w) == <<[pred |-> p, weight |-> w]>> \o cs

\* self._clauses += [(clause, weight)]
push_clause(cs, p, w) == Append(cs, [pred |-> p, weight |-> w])

\* Variant of the accumulation that forgets the test: score += clause[1]
AccumulateAlways(s, c, res) == s + c.weight

\* Variant of the accumulation that assigns: score = clause[1] if ... else 0
AccumulateAssign(s, c, res) == IF res THEN c.weight ELSE 0

\* score += clause[1] if clause[0](*args) else 0
Accumulate(s, c, res) == s + (IF res THEN c.weight ELSE 0)

\* Variant of the loop of score() that leaves it at the first clause returning false.
RECURSIVE ScoreFromEarlyExit(_, _, _, _)
ScoreFromEarlyExit(cs, i, x, st) ==
    IF i > Len(cs) THEN st
    ELSE LET r == Invoke(cs[i].pred, x, st.prev)
             nxt == [score |-> Accumulate(st.score, cs[i], r.res),
                     prev |-> r.prev,
                     log |-> Append(st.log, [idx |-> i, res |-> r.res])]
         IN IF ~r.res THEN nxt ELSE ScoreFromEarlyExit(cs, i + 1, x, nxt)

\* The for loop of score(), from clause i on; st carries the running score,
\* the clause state and the invocations made so far.
RECURSIVE ScoreFrom(_, _, _, _)
ScoreFrom(cs, i, x, st) ==
    IF i > Len(cs) THEN st
    ELSE LET r == Invoke(cs[i].pred, x, st.prev)
         IN ScoreFrom(cs, i + 1, x,
                [score |-> Accumulate(st.score, cs[i], r.res),
                 prev |-> r.prev,
                 log |-> Append(st.log, [idx |-> i, res |-> r.res])])

score(cs, x, pv) == ScoreFrom(cs, 1, x, [score |-> 0, prev |-> pv, log |-> <<>>])

\* Variant of the comparison: self.score(*args) > self.required_score
DecideStrict(s, req) == s > req

\* return self.score(*args) >= self.required_score
Decide(s, req) == s >= req

RECURSIVE SumWeights(_)
SumWeights(cs) == IF cs = <<>> THEN 0 ELSE Head(cs).weight + SumWeights(Tail(cs))

\* Variant of the default that counts the clauses: len(self._clauses)
WeightedRequiredCount(rs, cs) == IF Falsy(rs) THEN Len(cs) ELSE rs

\* Variant of the default taken only for None: if self.required_score is None
WeightedRequiredNoneOnly(rs, cs) == IF rs = None THEN SumWeights(cs) ELSE rs

\* self.required_score = required_score
\* if not self.required_score: self.required_score = sum([x[1] for x in self._clauses])
WeightedRequired(rs, cs) == IF Falsy(rs) THEN SumWeights(cs) ELSE rs

\* [self.push_clause(clause[0], clause[1]) for clause in clauses]
RECURSIVE PushAll(_, _)
PushAll(acc, cs) ==
    IF cs = <<>> THEN acc
    ELSE PushAll(push_clause(acc, Head(cs).pred, Head(cs).weight), Tail(cs))

WeightedInit(cs, rs) ==
    LET built == PushAll(<<>>, cs)
    IN [clauses |-> built, required_score |-> WeightedRequired(rs, built),
        raised |-> "none"]

\* ------------------------------------------------------- SimpleModel
\* [self.push_clause(clause) for clause in clauses]: weight defaults to 1.
RECURSIVE PushAllUnit(_, _)
PushAllUnit(acc, ps) ==
    IF ps = <<>> THEN acc
    ELSE PushAllUnit(push_clause(acc, Head(ps), 1), Tail(ps))

\* SimpleModel.__init__: maximum_score is assigned, maximum_clauses is read;
\* the name maximum_clauses is bound nowhere, so reading it raises NameError
\* and the object is left as the statements before the read made it.
SimpleInit(ps, rs) ==
    LET built == PushAllUnit(<<>>, ps)
    IN IF Falsy(rs)
       THEN [clauses |-> built, required_score |-> rs, raised |-> "NameError"]
       ELSE IF rs > Len(ps)
       THEN [clauses |-> built, required_score |-> rs, raised |-> "NameError"]
       ELSE [clauses |-> built, required_score |-> rs, raised |-> "none"]

\* ----------------------------------------------------- AbsoluteModel
\* super().__init__(clauses, required_score=len(clauses))
AbsoluteInit(ps) == SimpleInit(ps, Len(ps))

\* for clause in self._clauses: if not clause[0](*args): return False
\* return True
RECURSIVE AbsoluteFrom(_, _, _, _)
AbsoluteFrom(cs, i, x, st) ==
    IF i > Len(cs) THEN [st EXCEPT !.ret = TRUE]
    ELSE LET r == Invoke(cs[i].pred, x, st.prev)
             log == Append(st.log, [idx |-> i, res |-> r.res])
         IN IF ~r.res
            THEN [ret |-> FALSE, prev |-> r.prev, log |-> log]
            ELSE AbsoluteFrom(cs, i + 1, x, [ret |-> FALSE, prev |-> r.prev, log |-> log])

\* Variant of AbsoluteModel.__call__ without the early return: every clause is
\* invoked and the conjunction of the results returned.
AbsoluteCallEvaluatesAll(cs, x, pv) ==
    LET s == score(cs, x, pv)
    IN [ret |-> \A i \in DOMAIN s.log : s.log[i].res, prev |-> s.prev, log |-> s.log]

AbsoluteCall(cs, x, pv) ==
    AbsoluteFrom(cs, 1, x, [ret |-> FALSE, prev |-> pv, log |-> <<>>])

\* WeightedModel.__call__, inherited by SimpleModel.
WeightedCall(cs, req, x, pv) ==
    LET s == score(cs, x, pv)
    IN [ret |-> Decide(s.score, req), prev |-> s.prev, log |-> s.log]

\* ------------------------------------------------------ state machine
\* FibonacciClause.prev is [0, 1] when the class is defined (model.py:32); being a
\* class attribute, clauses of earlier models may have advanced it already.
FibStart == {<<0, 1>>, FibAdvance(<<0, 1>>), FibAdvance(FibAdvance(<<0, 1>>))}

\* A behaviour follows one model object from its constructor call on.
Init ==
    /\ cls = ""
    /\ clauses = <<>>
    /\ required_score = None
    /\ prev \in FibStart
    /\ supplied = None
    /\ pushed = 0
    /\ op = "init"
    /\ data = None
    /\ invoked = <<>>
    /\ result = None
    /\ verdict = FALSE
    /\ raised = "none"

\* A constructor call: the object it leaves, and the exception if it raised.
Constructed(c, obj, rs) ==
    /\ cls' = c
    /\ clauses' = obj.clauses
    /\ required_score' = obj.required_score
    /\ raised' = obj.raised
    /\ supplied' = rs
    /\ pushed' = 0
    /\ op' = "new"
    /\ data' = None
    /\ invoked' = <<>>
    /\ result' = None
    /\ verdict' = FALSE
    /\ UNCHANGED prev

NewWeighted ==
    /\ op = "init"
    /\ \E cs \in SeqsUpTo(ClauseTuples, MaxClauses), rs \in Supplied :
           Constructed("WeightedModel", WeightedInit(cs, rs), rs)

NewSimple ==
    /\ op = "init"
    /\ \E ps \in SeqsUpTo(Predicates, MaxClauses), rs \in Supplied :
           Constructed("SimpleModel", SimpleInit(ps, rs), rs)

NewAbsolute ==
    /\ op = "init"
    /\ \E ps \in SeqsUpTo(Predicates, MaxClauses) :
           Constructed("AbsoluteModel", AbsoluteInit(ps), None)

\* The caller holds an object only when its constructor returned.
Alive == cls \in Classes /\ ~(op = "new" /\ raised # "none")

PushClause ==
    /\ Alive
    /\ Len(clauses) < MaxClauses
    /\ \E p \in Predicates, w \in Weights :
           clauses' = push_clause(clauses, p, w)
    /\ pushed' = pushed + 1
    /\ op' = "push"
    /\ data' = None
    /\ invoked' = <<>>
    /\ result' = None
    /\ verdict' = FALSE
    /\ raised' = "none"
    /\ UNCHANGED <<cls, required_score, prev, supplied>>

Score ==
    /\ Alive
    /\ prev[1] <= MaxFib
    /\ \E x \in Inputs :
           LET s == score(clauses, x, prev)
           IN /\ data' = x
              /\ result' = s.score
              /\ prev' = s.prev
              /\ invoked' = s.log
    /\ op' = "score"
    /\ verdict' = FALSE
    /\ raised' = "none"
    /\ UNCHANGED <<cls, clauses, required_score, supplied, pushed>>

Call ==
    /\ Alive
    /\ prev[1] <= MaxFib
    /\ \E x \in Inputs :
           LET r == IF cls = "AbsoluteModel"
                    THEN AbsoluteCall(clauses, x, prev)
                    ELSE WeightedCall(clauses, required_score, x, prev)
           IN /\ data' = x
              /\ verdict' = r.ret
              /\ prev' = r.prev
              /\ invoked' = r.log
    /\ op' = "call"
    /\ result' = None
    /\ raised' = "none"
    /\ UNCHANGED <<cls, clauses, required_score, supplied, pushed>>

Next ==
    \/ NewWeighted
    \/ NewSimple
    \/ NewAbsolute
    \/ PushClause
    \/ Score
    \/ Call

Spec == Init /\ [][Next]_vars

\* ------------------------------------------------- vocabulary of the claims
OfClass(c) == cls = c /\ Alive

\* Sum of the weights of the clauses cs[i], i in I.
RECURSIVE WeightOver(_, _)
WeightOver(cs, I) ==
    IF I = {} THEN 0
    ELSE LET i == CHOOSE j \in I : TRUE
         IN cs[i].weight + WeightOver(cs, I \ {i})

TotalWeight(cs) == WeightOver(cs, DOMAIN cs)

\* The clauses the constructor was given: all but the ones pushed afterwards.
GivenClauses == SubSeq(clauses, 1, Len(clauses) - pushed)

\* The clause state after n invocations of FibonacciClause.
RECURSIVE AdvanceN(_, _)
AdvanceN(pv, n) == IF n = 0 THEN pv ELSE AdvanceN(FibAdvance(pv), n - 1)

FibsIn(cs, I) == Cardinality({j \in I : cs[j].pred = "fib"})

\* What clause i of cs returns on x when clauses 1..i-1 were each invoked once
\* before it, starting from clause state pv.
Holds(cs, i, x, pv) ==
    CASE cs[i].pred = "gt1" -> x > 1
      [] cs[i].pred = "lt3" -> x < 3
      [] cs[i].pred = "fib" -> x = FibNext(AdvanceN(pv, FibsIn(cs, 1 .. i - 1)))

\* The invocation record of clauses 1..k of cs, each once, in order.
InOrder(cs, k, x, pv) == [i \in 1 .. k |-> [idx |-> i, res |-> Holds(cs, i, x, pv)]]

\* The clauses the last operation found true, and what they weigh together.
TrueOnes == {invoked[i].idx : i \in {j \in DOMAIN invoked : invoked[j].res}}
LoggedScore == WeightOver(clauses, TrueOnes)
InvokedAllOnce ==
    /\ Len(invoked) = Len(clauses)
    /\ \A i \in DOMAIN invoked : invoked[i].idx = i

\* ---------------------------------------------------------------- claims
\* C1: WeightedModel.score(input) invokes every clause exactly once, in
\* insertion order, whatever the earlier clauses returned (no early exit: the
\* state of every stateful clause advances), and returns the sum of the weights
\* of exactly the clauses that returned true.
C1_ScoreInvokesEveryClause ==
    [][op' = "score" =>
          /\ invoked' = InOrder(clauses, Len(clauses), data', prev)
          /\ result' = WeightOver(clauses,
                 {i \in DOMAIN clauses : Holds(clauses, i, data', prev)})
          /\ prev' = AdvanceN(prev, FibsIn(clauses, DOMAIN clauses))
          /\ clauses' = clauses]_vars

\* A score() whose first clause returned false and whose second, stateful clause
\* was invoked all the same and returned true.
C1_Witness ==
    /\ op = "score"
    /\ Len(clauses) = 2
    /\ Len(invoked) = 2
    /\ ~invoked[1].res
    /\ clauses[2].pred = "fib"
    /\ invoked[2].res
    /\ result = clauses[2].weight
    /\ result > 0

\* C2: invoking a WeightedModel or a SimpleModel returns true exactly when the
\* score of that invocation, taken over the current clause sequence, is at
\* least required_score.
C2_CallComparesScore ==
    (op = "call" /\ cls \in {"WeightedModel", "SimpleModel"}) =>
        /\ InvokedAllOnce
        /\ verdict = (LoggedScore >= required_score)

\* A call, after a push_clause, whose score is exactly the threshold.
C2_Witness ==
    /\ op = "call"
    /\ cls = "SimpleModel"
    /\ pushed > 0
    /\ LoggedScore = required_score
    /\ verdict

\* C3: AbsoluteModel.__call__ invokes the clauses in insertion order up to and
\* including the first that returns false, returns false there and invokes
\* nothing after it (later stateful clauses keep their state); it returns true
\* only when every clause was invoked and returned true.
FirstFailing(cs, x, pv) ==
    LET failing == {i \in DOMAIN cs :
                       /\ ~Holds(cs, i, x, pv)
                       /\ \A j \in 1 .. i - 1 : Holds(cs, j, x, pv)}
    IN IF failing = {} THEN 0 ELSE CHOOSE i \in failing : TRUE

C3_AbsoluteShortCircuits ==
    [][(op' = "call" /\ cls = "AbsoluteModel") =>
          LET k == FirstFailing(clauses, data', prev)
              n == IF k = 0 THEN Len(clauses) ELSE k
          IN /\ invoked' = InOrder(clauses, n, data', prev)
             /\ verdict' = (k = 0)
             /\ prev' = AdvanceN(prev, FibsIn(clauses, 1 .. n))]_vars

\* A call whose first clause failed: the stateful second clause was not invoked.
C3_Witness ==
    /\ op = "call"
    /\ cls = "AbsoluteModel"
    /\ Len(clauses) = 2
    /\ clauses[2].pred = "fib"
    /\ Len(invoked) = 1
    /\ ~invoked[1].res
    /\ ~verdict

\* C4: constructing a SimpleModel over n clauses succeeds and leaves
\* required_score = n when none is supplied or the supplied one exceeds n, and
\* the supplied value otherwise.
C4_SimpleModelConstructs ==
    (op = "new" /\ cls = "SimpleModel") =>
        /\ raised = "none"
        /\ required_score =
               IF supplied = None \/ supplied > Len(clauses)
               THEN Len(clauses) ELSE supplied

\* C5: a WeightedModel constructed without a required_score has required_score
\* equal to the sum of the weights of the clauses given to the constructor; for
\* the empty list that is 0 and the model returns true on every input.
C5_DefaultIsSumOfWeights ==
    (OfClass("WeightedModel") /\ supplied = None) =>
        /\ required_score = TotalWeight(GivenClauses)
        /\ (clauses = <<>> /\ op = "call") => (required_score = 0 /\ verdict)

\* A default-constructed empty WeightedModel that accepted an input.
C5_Witness ==
    /\ OfClass("WeightedModel")
    /\ supplied = None
    /\ clauses = <<>>
    /\ op = "call"
    /\ required_score = 0
    /\ verdict

\* C6: for an AbsoluteModel, required_score equals the number of clauses the
\* model holds, after construction from any list and after any push_clause calls
\* and invocations.
C6_AbsoluteRequiresAll ==
    cls = "AbsoluteModel" =>
        /\ raised = "none"
        /\ required_score = Len(clauses)

\* C7: push_clause appends the new (predicate, weight) pair after the existing
\* pairs, which keep their values and order, and changes nothing else:
\* required_score keeps its value, supplied or computed by default.
C7_PushOnlyAppends ==
    [][op' = "push" =>
          /\ Len(clauses') = Len(clauses) + 1
          /\ SubSeq(clauses', 1, Len(clauses)) = clauses
          /\ clauses'[Len(clauses')] \in ClauseTuples
          /\ required_score' = required_score
          /\ cls' = cls
          /\ prev' = prev]_vars

\* After a push the default threshold is still the sum over the constructor's
\* clauses, no longer the sum over the clauses held.
C7_Witness ==
    /\ op = "push"
    /\ OfClass("WeightedModel")
    /\ supplied = None
    /\ Len(clauses) = 2
    /\ pushed = 1
    /\ required_score = clauses[1].weight
    /\ required_score # TotalWeight(clauses)

\* C8 as stated: a WeightedModel constructed without a required_score from
\* clauses with non-negative weights, with no push_clause afterwards, returns
\* true on an input exactly when every clause returns true on it.
AllReturnedTrue == \A i \in DOMAIN invoked : invoked[i].res

C8_DefaultIsConjunction ==
    (OfClass("WeightedModel") /\ supplied = None /\ pushed = 0 /\ op = "call") =>
        /\ InvokedAllOnce
        /\ verdict = AllReturnedTrue

\* C8 amended: the same for clauses whose weights are all positive.
C8_PositiveWeightsConjunction ==
    (/\ OfClass("WeightedModel") /\ supplied = None /\ pushed = 0 /\ op = "call"
     /\ \A i \in DOMAIN clauses : clauses[i].weight > 0) =>
        /\ InvokedAllOnce
        /\ verdict = AllReturnedTrue

\* A rejected input: one clause of two failed, both weigh something.
C8_Witness ==
    /\ OfClass("WeightedModel") /\ supplied = None /\ pushed = 0 /\ op = "call"
    /\ Len(clauses) = 2
    /\ \A i \in DOMAIN clauses : clauses[i].weight > 0
    /\ invoked[1].res
    /\ ~invoked[2].res
    /\ ~verdict

\* C9: push_clause never lowers the score of any input, whatever the existing
\* clauses return on it, and a pushed clause that returns true on the input
\* raises the score by its weight.
C9_ScoreMonotonicUnderPush ==
    [][op' = "push" =>
          \A x \in Inputs :
              LET old == score(clauses, x, prev).score
                  new == score(clauses', x, prev).score
                  n == Len(clauses')
              IN /\ new >= old
                 /\ Holds(clauses', n, x, prev) => new = old + clauses'[n].weight]_vars

\* Stateless clauses: the pushed one weighs something and is true on an input
\* on which the existing one is false.
C9_Witness ==
    /\ op = "push"
    /\ Len(clauses) = 2
    /\ \A i \in DOMAIN clauses : clauses[i].pred # "fib"
    /\ clauses[1].weight > 0
    /\ clauses[2].weight > 0
    /\ \E x \in Inputs : Holds(clauses, 2, x, prev) /\ ~Holds(clauses, 1, x, prev)

\* C10: the WeightedModel constructor treats a supplied required_score of 0 as
\* an unsupplied one (required_score becomes the sum of the clause weights, so
\* the model rejects an input on which a clause of positive weight fails) and
\* stores every non-zero supplied required_score unchanged.
C10_ZeroThresholdIsDefault ==
    OfClass("WeightedModel") =>
        /\ supplied = 0 => required_score = TotalWeight(GivenClauses)
        /\ (supplied # None /\ supplied # 0) => required_score = supplied
        /\ (/\ supplied = 0 /\ pushed = 0 /\ op = "call"
            /\ \E i \in DOMAIN invoked :
                   ~invoked[i].res /\ clauses[invoked[i].idx].weight > 0)
           => ~verdict

\* A model built with threshold 0 that rejected an input.
C10_Witness ==
    /\ OfClass("WeightedModel")
    /\ supplied = 0
    /\ pushed = 0
    /\ op = "call"
    /\ required_score > 0
    /\ \E i \in DOMAIN invoked : ~invoked[i].res /\ clauses[invoked[i].idx].weight > 0
    /\ ~verdict
====
